---- MODULE Spec2Model ----
(***************************************************************************)
(* Model of pc_controller/native_backend/native_backend.cpp:               *)
(*   SpscRing       the lock-free ring of (t, v) samples, push and pop_all *)
(*                  executed one memory access at a time;                  *)
(*   NativeShimmer  connect / start_streaming / stop_streaming and the     *)
(*                  128 Hz run_loop thread that pushes into the ring;      *)
(*   NativeWebcam   start_capture / stop_capture, get_latest_frame and the *)
(*                  frame loop, OpenCV path and synthetic path, that       *)
(*                  writes the shared frame buffer.                        *)
(* The variable obj names the object under test.  The objects share no     *)
(* state, so each is explored on its own.                                  *)
(* Specifications:                                                         *)
(*   Spec, SpecSeq  an SpscRing with a producer and a consumer thread,     *)
(*                  interleaved or one call at a time;                     *)
(*   SpecLife       a stream, its lifecycle caller and its loop thread;    *)
(*   SpecLifeFair   SpecLife with the loop thread scheduled fairly;        *)
(*   SpecTeardown   SpecLife with the destruction of the object;           *)
(*   SpecPoll       a NativeShimmer polled with get_latest_samples;        *)
(*   SpecRate       a NativeShimmer with at most one period of jitter;     *)
(*   SpecCam        a NativeWebcam read with get_latest_frame.             *)
(***************************************************************************)
EXTENDS Integers, Sequences, FiniteSets, TLC

\* ------------------------------------------------------------- bounds
MaxCapacity == 3
MaxPush == 4
MaxPop == 3
MaxSeqCapacity == 8
MaxSeqPush == 12
MaxSeqPop == 2
MaxStarts == 2
MaxPollStarts == 1
MaxPoll == 2
MaxPollTime == 1
MaxTime == 3
MaxFrames == 2
MaxFails == 2
FrameHeight == 2

\* ------------------------------------------------- program constants
QueueCapacity == 4096
Rate == 128
FrameWidth == 640
Blank == 0 - 1

VARIABLES
    obj,        \* "SpscRing" | "NativeShimmer" | "NativeWebcam"
    sched,      \* "concurrent" | "sequential": how the two ring threads are scheduled
    cap,        \* SpscRing::_cap
    buf,        \* SpscRing::_buf, interleaved t,v: the slots written so far (the others hold 0)
    head,       \* SpscRing::_head
    tail,       \* SpscRing::_tail
    p_pc,       \* position of the producer / loop thread
    p_h,        \* push: h
    p_n,        \* push: n
    p_t,        \* push: argument t
    p_v,        \* push: argument v
    p_tcur,     \* push: tcur
    c_pc,       \* position of the consumer inside pop_all
    c_tcur,     \* pop_all: tcur
    c_h,        \* pop_all: h
    c_i,        \* pop_all: i
    c_x,        \* pop_all: _buf[idx + 0] already read for the pair being built
    c_out,      \* pop_all: out
    pushed,     \* history: number of push calls begun
    pops,       \* history: number of pop_all calls returned
    popped,     \* history: concatenation of everything pop_all returned
    lastRet,    \* history: what the last pop_all returned
    lastH,      \* history: the head the last pop_all loaded
    lastSince,  \* history: pushes begun between the returns of the last two pop_all calls
    sincePop,   \* history: pushes begun since the last pop_all call returned
    timely,     \* history: no push began with cap pushes already begun since the last pop_all call returned
    connected,  \* NativeShimmer::_connected
    running,    \* NativeShimmer::_running / NativeWebcam::_running
    port,       \* NativeShimmer::_port
    thread,     \* _thread: "none" (not joinable) | "joinable"
    live,       \* number of loop threads that have been spawned and have not finished
    aborted,    \* std::terminate was called
    caller,     \* position of the lifecycle caller: "idle" | "join" (blocked in _thread.join()) | "dead"
    err,        \* outcome of the caller's last call: "none" | "runtime_error"
    lastCall,   \* history: the last lifecycle call made: "none" | "connect" | "start" | "stop"
    stopped,    \* history: a stop call has returned and no thread was spawned since
    tests,      \* history: loop tests the current loop thread has executed (counted up to 2)
    now,        \* Clock::now(), in ticks of one sampling period
    t_next,     \* NativeShimmer::run_loop: t_next
    mtx,        \* NativeWebcam::_mtx: "free" | "loop"
    fbuf,       \* NativeWebcam::_buffer, one entry per row
    w_t0,       \* NativeWebcam::run_loop: t0
    w_shift,    \* NativeWebcam::run_loop: shift
    w_y,        \* NativeWebcam::run_loop: y
    frames,     \* history: frames the frame loop has begun to write (counted up to MaxFrames)
    starts,     \* history: loop threads spawned so far
    late,       \* history: loop bodies the current thread began with running false (counted up to 2)
    r_t0,       \* history: the t_next the current run of NativeShimmer::run_loop started with
    runPushes,  \* history: iterations of the current run of NativeShimmer::run_loop that pushed
    quiet,      \* history: push has stored neither _head nor _tail since pop_all last loaded _head
    c_quiet,    \* history: quiet, as it was when the pop_all in progress loaded _head
    doneSince,  \* history: a push call has returned since the last return of pop_all
    w_frame,    \* NativeWebcam::run_loop (OpenCV path): frame, the image cap.read delivered (0: none)
    fails,      \* history: consecutive failed cap.read calls of the current run (counted up to MaxFails)
    lastGood,   \* history: _buffer as the last completed copy left it
    r_pc,       \* get_latest_frame: position of the reader
    r_y,        \* get_latest_frame: rows copied so far
    view        \* get_latest_frame: the array handed to the caller

ringVars == <<cap, buf, head, tail>>
prodVars == <<p_pc, p_h, p_n, p_t, p_v, p_tcur>>
consVars == <<c_pc, c_tcur, c_h, c_i, c_x, c_out>>
histVars == <<pushed, pops, popped, lastRet, lastH, lastSince, sincePop, timely>>
lifeVars == <<connected, running, port, thread, live, aborted, caller, err, lastCall, stopped, tests>>
clockVars == <<now, t_next>>
camVars == <<mtx, fbuf, w_t0, w_shift, w_y, frames>>
runVars == <<starts, late, r_t0, runPushes>>
pollVars == <<quiet, c_quiet, doneSince>>
frameVars == <<w_frame, fails, lastGood, r_pc, r_y, view>>
vars == <<obj, sched, ringVars, prodVars, consVars, histVars, lifeVars, clockVars, camVars,
          runVars, pollVars, frameVars>>

\* ------------------------------------------------------------ SpscRing

RECURSIVE Pow2Loop(_, _)
Pow2Loop(p, v) == IF p < v THEN Pow2Loop(p * 2, v) ELSE p

next_pow2(v) == Pow2Loop(1, v)

RECURSIVE BitAnd(_, _)
BitAnd(a, b) ==
    IF a = 0 \/ b = 0 THEN 0
    ELSE (a % 2) * (b % 2) + 2 * BitAnd(a \div 2, b \div 2)

Mask == cap - 1

\* index of the t half of the slot of position h; the v half follows it
Slot(h) == BitAnd(h, Mask) * 2

\* _buf[k] read: a slot never written still holds the 0 the constructor filled it with
BufAt(k) == IF k \in DOMAIN buf THEN buf[k] ELSE 0

\* _buf[k] = x
BufSet(k, x) == [j \in DOMAIN buf \cup {k} |-> IF j = k THEN x ELSE buf[j]]

\* The constructor: _cap(next_pow2(capacity)), _buf(_cap * 2) zero-filled, _head(0), _tail(0)
RingInit(capacity) ==
    /\ cap = next_pow2(capacity)
    /\ buf = [k \in {} |-> 0]
    /\ head = 0
    /\ tail = 0

PushBound == IF sched = "sequential" THEN MaxSeqPush ELSE MaxPush
PopBound ==
    IF sched = "sequential" THEN MaxSeqPop
    ELSE IF sched = "polled" THEN MaxPoll
    ELSE MaxPop

\* where push returns to
PushReturnPc == IF obj = "NativeShimmer" THEN "advance" ELSE "idle"

\* push(t, v) is entered: h = _head.load(relaxed); n = h + 1
PushEnter(t, v) ==
    /\ p_h' = head
    /\ p_n' = head + 1
    /\ p_t' = t
    /\ p_v' = v
    /\ p_pc' = "write_t"
    /\ pushed' = pushed + 1
    /\ sincePop' = sincePop + 1
    /\ timely' = (timely /\ sincePop < cap)
    /\ UNCHANGED <<p_tcur, pops, popped, lastRet, lastH, lastSince>>

\* _buf[(h & _mask) * 2 + 0] = t
PushWriteT ==
    /\ p_pc = "write_t"
    /\ buf' = BufSet(Slot(p_h), p_t)
    /\ p_pc' = "write_v"
    /\ UNCHANGED <<runVars, pollVars, frameVars, obj, sched, lifeVars, clockVars, camVars, cap, head, tail, p_h, p_n, p_t, p_v, p_tcur, consVars, histVars>>

\* _buf[(h & _mask) * 2 + 1] = v
PushWriteV ==
    /\ p_pc = "write_v"
    /\ buf' = BufSet(Slot(p_h) + 1, p_v)
    /\ p_pc' = "store_head"
    /\ UNCHANGED <<runVars, pollVars, frameVars, obj, sched, lifeVars, clockVars, camVars, cap, head, tail, p_h, p_n, p_t, p_v, p_tcur, consVars, histVars>>

\* _head.store(n, release)
PushStoreHead ==
    /\ p_pc = "store_head"
    /\ head' = p_n
    /\ p_pc' = "load_tail"
    /\ quiet' = FALSE
    /\ UNCHANGED <<runVars, c_quiet, doneSince, frameVars, obj, sched, lifeVars, clockVars, camVars, cap, buf, tail, p_h, p_n, p_t, p_v, p_tcur, consVars, histVars>>

\* tcur = _tail.load(acquire)
PushLoadTail ==
    /\ p_pc = "load_tail"
    /\ p_tcur' = tail
    /\ p_pc' = "check"
    /\ UNCHANGED <<runVars, pollVars, frameVars, obj, sched, lifeVars, clockVars, camVars, ringVars, p_h, p_n, p_t, p_v, consVars, histVars>>

\* a push that never advances the tail
DropTailNever(n, tcur, old) == old

\* the tail push stores, given n and the tail it loaded
DropTail(n, tcur, old) == IF n - tcur > cap THEN n - cap ELSE old

\* if (n - tcur > _cap) _tail.store(n - _cap, release); return
PushStoreTail ==
    /\ p_pc = "check"
    /\ tail' = DropTail(p_n, p_tcur, tail)
    /\ p_pc' = PushReturnPc
    /\ p_h' = 0 /\ p_n' = 0 /\ p_t' = 0 /\ p_v' = 0 /\ p_tcur' = 0
    /\ quiet' = (quiet /\ tail' = tail)
    /\ doneSince' = TRUE
    /\ UNCHANGED <<runVars, c_quiet, frameVars, obj, sched, lifeVars, clockVars, camVars, cap, buf, head, consVars, histVars>>

\* pop_all is entered: tcur = _tail.load(relaxed)
PopLoadTail ==
    /\ c_pc = "idle"
    /\ pops < PopBound
    /\ c_tcur' = tail
    /\ c_pc' = "load_head"
    /\ UNCHANGED <<runVars, pollVars, frameVars, obj, sched, lifeVars, clockVars, camVars, ringVars, prodVars, c_h, c_i, c_x, c_out, histVars>>

\* h = _head.load(acquire); count = h - tcur; i = 0
PopLoadHead ==
    /\ c_pc = "load_head"
    /\ c_h' = head
    /\ c_i' = 0
    /\ c_out' = <<>>
    /\ c_pc' = "loop"
    /\ c_quiet' = quiet
    /\ quiet' = TRUE
    /\ UNCHANGED <<runVars, doneSince, frameVars, obj, sched, lifeVars, clockVars, camVars, ringVars, prodVars, c_tcur, c_x, histVars>>

\* count = static_cast<size_t>(h - tcur)
Count == c_h - c_tcur

\* i < count: the first argument of emplace_back, _buf[idx + 0], is read
PopReadT ==
    /\ c_pc = "loop"
    /\ c_i < Count
    /\ c_x' = BufAt(Slot(c_tcur + c_i))
    /\ c_pc' = "read_v"
    /\ UNCHANGED <<runVars, pollVars, frameVars, obj, sched, lifeVars, clockVars, camVars, ringVars, prodVars, c_tcur, c_h, c_i, c_out, histVars>>

\* _buf[idx + 1] is read and the pair appended; ++i
PopReadV ==
    /\ c_pc = "read_v"
    /\ c_out' = Append(c_out, <<c_x, BufAt(Slot(c_tcur + c_i) + 1)>>)
    /\ c_i' = c_i + 1
    /\ c_x' = 0
    /\ c_pc' = "loop"
    /\ UNCHANGED <<runVars, pollVars, frameVars, obj, sched, lifeVars, clockVars, camVars, ringVars, prodVars, c_tcur, c_h, histVars>>

\* a pop_all that leaves the tail where it found it
ConsumedTailKept(tcur, h) == tcur

\* the tail pop_all stores, given the tail and the head it loaded
ConsumedTail(tcur, h) == h

\* i = count: _tail.store(h, release); return out
PopStoreTail ==
    /\ c_pc = "loop"
    /\ ~(c_i < Count)
    /\ tail' = ConsumedTail(c_tcur, c_h)
    /\ popped' = popped \o c_out
    /\ lastRet' = c_out
    /\ lastH' = c_h
    /\ lastSince' = sincePop
    /\ sincePop' = 0
    /\ pops' = pops + 1
    /\ c_pc' = "idle"
    /\ c_tcur' = 0 /\ c_h' = 0 /\ c_i' = 0 /\ c_x' = 0 /\ c_out' = <<>>
    /\ doneSince' = FALSE
    /\ UNCHANGED <<runVars, quiet, c_quiet, frameVars, obj, sched, lifeVars, clockVars, camVars, cap, buf, head, prodVars, pushed, timely>>

\* the (t, v) the producer thread passes to its k-th push call: value = timestamp
Sample(k) == <<k, k>>

\* A producer thread calls push(t, v) with samples 0, 1, 2, ...
ProducerCall ==
    /\ obj = "SpscRing"
    /\ p_pc = "idle"
    /\ pushed < PushBound
    /\ PushEnter(Sample(pushed)[1], Sample(pushed)[2])
    /\ UNCHANGED <<runVars, pollVars, frameVars, obj, sched, lifeVars, clockVars, camVars, ringVars, consVars>>

PushStep ==
    \/ PushWriteT
    \/ PushWriteV
    \/ PushStoreHead
    \/ PushLoadTail
    \/ PushStoreTail

ProducerStep == ProducerCall \/ PushStep

ConsumerStep ==
    \/ PopLoadTail
    \/ PopLoadHead
    \/ PopReadT
    \/ PopReadV
    \/ PopStoreTail

HistInit ==
    /\ pushed = 0 /\ pops = 0 /\ popped = <<>> /\ lastRet = <<>> /\ lastH = 0
    /\ lastSince = 0 /\ sincePop = 0 /\ timely = TRUE
    /\ quiet = TRUE /\ c_quiet = TRUE /\ doneSince = FALSE

\* NativeShimmer(): _running(false), _connected(false), no thread
LifeInit ==
    /\ connected = FALSE /\ running = FALSE /\ port = "" /\ thread = "none"
    /\ live = 0 /\ aborted = FALSE /\ caller = "idle" /\ err = "none"
    /\ lastCall = "none" /\ stopped = FALSE /\ tests = 0
    /\ now = 0 /\ t_next = 0
    /\ starts = 0 /\ late = 0 /\ r_t0 = 0 /\ runPushes = 0

\* NativeWebcam(): _buffer.resize(_width * _height * 3), zero-filled
CamInit ==
    /\ mtx = "free" /\ fbuf = [y \in 0..(FrameHeight - 1) |-> Blank]
    /\ w_t0 = 0 /\ w_shift = 0 /\ w_y = 0 /\ frames = 0
    /\ w_frame = 0 /\ fails = 0 /\ lastGood = [y \in 0..(FrameHeight - 1) |-> Blank]
    /\ r_pc = "idle" /\ r_y = 0 /\ view = [y \in 0..(FrameHeight - 1) |-> Blank]

ThreadsInit ==
    /\ p_pc = "idle" /\ p_h = 0 /\ p_n = 0 /\ p_t = 0 /\ p_v = 0 /\ p_tcur = 0
    /\ c_pc = "idle" /\ c_tcur = 0 /\ c_h = 0 /\ c_i = 0 /\ c_x = 0 /\ c_out = <<>>

\* One producer thread and one consumer thread on a ring, any interleaving
Init ==
    /\ obj = "SpscRing"
    /\ sched = "concurrent"
    /\ \E capacity \in 1..MaxCapacity : RingInit(capacity)
    /\ ThreadsInit
    /\ HistInit
    /\ LifeInit
    /\ CamInit

Next == ProducerStep \/ ConsumerStep

Spec == Init /\ [][Next]_vars

\* The same ring used from one thread at a time: a call runs to its return
\* before the next call begins
InitSeq ==
    /\ obj = "SpscRing"
    /\ sched = "sequential"
    /\ \E capacity \in 1..MaxSeqCapacity : RingInit(capacity)
    /\ ThreadsInit
    /\ HistInit
    /\ LifeInit
    /\ CamInit

SeqProducerStep ==
    \/ (c_pc = "idle" /\ ProducerCall)
    \/ (c_pc = "idle" /\ PushWriteT)
    \/ (c_pc = "idle" /\ PushWriteV)
    \/ (c_pc = "idle" /\ PushStoreHead)
    \/ (c_pc = "idle" /\ PushLoadTail)
    \/ (c_pc = "idle" /\ PushStoreTail)

SeqConsumerStep ==
    \/ (p_pc = "idle" /\ PopLoadTail)
    \/ (p_pc = "idle" /\ PopLoadHead)
    \/ (p_pc = "idle" /\ PopReadT)
    \/ (p_pc = "idle" /\ PopReadV)
    \/ (p_pc = "idle" /\ PopStoreTail)

NextSeq == SeqProducerStep \/ SeqConsumerStep

SpecSeq == InitSeq /\ [][NextSeq]_vars

\* ------------------------------------------------------- loop threads

\* dt = 1.0 / rate, in clock ticks
TicksPerSecond == Rate
Period == TicksPerSecond \div Rate

Min(a, b) == IF a < b THEN a ELSE b

\* _thread = std::thread(...): move-assigning to a joinable std::thread
\* calls std::terminate, which ends every thread of the process; otherwise
\* the new thread starts at entry
SpawnThread(entry) ==
    IF thread = "joinable"
    THEN /\ aborted' = TRUE
         /\ caller' = "dead"
         /\ p_pc' = "dead"
         /\ UNCHANGED <<thread, live, tests, stopped, starts, late>>
    ELSE /\ thread' = "joinable"
         /\ live' = live + 1
         /\ p_pc' = entry
         /\ tests' = 0
         /\ stopped' = FALSE
         /\ starts' = starts + 1
         /\ late' = 0
         /\ UNCHANGED <<aborted, caller>>

\* a loop that does not look at the running flag
LoopForever == TRUE

\* while (_running.load())
LoopContinues == running

\* the loop threads one behaviour spawns
StartBound == IF sched = "polled" THEN MaxPollStarts ELSE MaxStarts

\* loop bodies begun after the running flag was cleared
LateCount == IF running THEN late ELSE Min(late + 1, 2)

\* the loop thread returns from run_loop
ThreadExit ==
    /\ p_pc' = "off"
    /\ live' = live - 1

\* a stop that does not wait for the thread
JoinedWithoutWaiting == TRUE

\* _thread.join() returns once the thread has finished
Joined == p_pc = "off"

\* NativeShimmer::run_loop is entered: t_next = Clock::now()
LoopEntry ==
    /\ obj = "NativeShimmer"
    /\ p_pc = "entry"
    /\ t_next' = now
    /\ r_t0' = now
    /\ runPushes' = 0
    /\ p_pc' = "test"
    /\ UNCHANGED <<starts, late, pollVars, frameVars, obj, sched, ringVars, p_h, p_n, p_t, p_v, p_tcur, consVars, histVars,
                   lifeVars, now, camVars>>

\* while (_running.load())
LoopTest ==
    /\ obj = "NativeShimmer"
    /\ p_pc = "test"
    /\ tests' = Min(tests + 1, 2)
    /\ IF LoopContinues THEN p_pc' = "clock" /\ UNCHANGED live ELSE ThreadExit
    /\ UNCHANGED <<runVars, pollVars, frameVars, obj, sched, ringVars, p_h, p_n, p_t, p_v, p_tcur, consVars, histVars,
                   connected, running, port, thread, aborted, caller, err, lastCall, stopped,
                   clockVars, camVars>>

\* now = Clock::now(); if (now < t_next) { sleep_for(100us); continue; }
LoopSleep ==
    /\ obj = "NativeShimmer"
    /\ p_pc = "clock"
    /\ now < t_next
    /\ p_pc' = "test"
    /\ late' = LateCount
    /\ UNCHANGED <<starts, r_t0, runPushes, pollVars, frameVars, obj, sched, ringVars, p_h, p_n, p_t, p_v, p_tcur, consVars, histVars,
                   lifeVars, clockVars, camVars>>

\* otherwise t = now, the simulated GSR value is computed and
\* _queue.push(t, gsr_value) is called; the value is identified by the
\* number of the push
LoopPush ==
    /\ obj = "NativeShimmer"
    /\ p_pc = "clock"
    /\ ~(now < t_next)
    /\ PushEnter(now, pushed)
    /\ late' = LateCount
    /\ UNCHANGED <<starts, r_t0, runPushes, pollVars, frameVars, obj, sched, ringVars, consVars, lifeVars, clockVars, camVars>>

\* a loop that sets its next deadline one period after the current time
NextDeadlineFromNow(t, n) == n + Period

\* t_next += dt
NextDeadline(t, n) == t + Period

\* push has returned: t_next += dt
LoopAdvance ==
    /\ obj = "NativeShimmer"
    /\ p_pc = "advance"
    /\ t_next' = NextDeadline(t_next, now)
    /\ runPushes' = runPushes + 1
    /\ p_pc' = "test"
    /\ UNCHANGED <<starts, late, r_t0, pollVars, frameVars, obj, sched, ringVars, p_h, p_n, p_t, p_v, p_tcur, consVars, histVars,
                   lifeVars, now, camVars>>

\* the clock readings one behaviour covers
TimeBound == IF sched = "polled" THEN MaxPollTime ELSE MaxTime

\* the steady clock advances
Tick ==
    /\ now < TimeBound
    /\ now' = now + 1
    /\ UNCHANGED <<runVars, pollVars, frameVars, obj, sched, ringVars, prodVars, consVars, histVars, lifeVars, t_next, camVars>>

\* shift = int(fmod(dt * 60.0, _width)), dt the seconds since t0
Shift(ticks) == ((ticks * 60) \div TicksPerSecond) % FrameWidth

\* A row of the gradient is determined by shift (xx = (x + shift) % _width);
\* it is represented by shift, and is never the all-zero row Blank
Row(shift) == shift

\* NativeWebcam::run_loop is entered (synthetic path): t0 = Clock::now()
CamEntry ==
    /\ obj = "NativeWebcam"
    /\ p_pc = "cam_entry"
    /\ w_t0' = now
    /\ p_pc' = "cam_test"
    /\ fails' = 0
    /\ UNCHANGED <<runVars, pollVars, w_frame, lastGood, r_pc, r_y, view, obj, sched, ringVars, p_h, p_n, p_t, p_v, p_tcur, consVars, histVars,
                   lifeVars, clockVars, mtx, fbuf, w_shift, w_y, frames>>

\* while (_running.load())
CamTest ==
    /\ obj = "NativeWebcam"
    /\ p_pc = "cam_test"
    /\ tests' = Min(tests + 1, 2)
    /\ IF LoopContinues THEN p_pc' = "cam_shift" /\ UNCHANGED live ELSE ThreadExit
    /\ UNCHANGED <<runVars, pollVars, frameVars, obj, sched, ringVars, p_h, p_n, p_t, p_v, p_tcur, consVars, histVars,
                   connected, running, port, thread, aborted, caller, err, lastCall, stopped,
                   clockVars, camVars>>

\* dt = Clock::now() - t0; shift = ...
CamShift ==
    /\ obj = "NativeWebcam"
    /\ p_pc = "cam_shift"
    /\ w_shift' = Shift(now - w_t0)
    /\ p_pc' = "cam_lock"
    /\ late' = LateCount
    /\ UNCHANGED <<starts, r_t0, runPushes, pollVars, frameVars, obj, sched, ringVars, p_h, p_n, p_t, p_v, p_tcur, consVars, histVars,
                   lifeVars, clockVars, mtx, fbuf, w_t0, w_y, frames>>

\* std::lock_guard<std::mutex> g(_mtx); y = 0
CamLock ==
    /\ obj = "NativeWebcam"
    /\ p_pc = "cam_lock"
    /\ mtx = "free"
    /\ mtx' = "loop"
    /\ w_y' = 0
    /\ frames' = Min(frames + 1, MaxFrames)
    /\ p_pc' = "cam_write"
    /\ UNCHANGED <<runVars, pollVars, frameVars, obj, sched, ringVars, p_h, p_n, p_t, p_v, p_tcur, consVars, histVars,
                   lifeVars, clockVars, fbuf, w_t0, w_shift>>

\* y < _height: row y of the gradient is written; ++y
CamWriteRow ==
    /\ obj = "NativeWebcam"
    /\ p_pc = "cam_write"
    /\ w_y < FrameHeight
    /\ fbuf' = [fbuf EXCEPT ![w_y] = Row(w_shift)]
    /\ w_y' = w_y + 1
    /\ UNCHANGED <<runVars, pollVars, frameVars, obj, sched, ringVars, prodVars, consVars, histVars,
                   lifeVars, clockVars, mtx, w_t0, w_shift, frames>>

\* y = _height: sleep_for(16ms), the guard g still in scope
CamSleep ==
    /\ obj = "NativeWebcam"
    /\ p_pc = "cam_write"
    /\ ~(w_y < FrameHeight)
    /\ p_pc' = "cam_sleep"
    /\ lastGood' = fbuf
    /\ UNCHANGED <<runVars, pollVars, w_frame, fails, r_pc, r_y, view, obj, sched, ringVars, p_h, p_n, p_t, p_v, p_tcur, consVars, histVars,
                   lifeVars, clockVars, camVars>>

\* the sleep ends, the iteration's scope closes and g releases _mtx
CamUnlock ==
    /\ obj = "NativeWebcam"
    /\ p_pc = "cam_sleep"
    /\ mtx' = "free"
    /\ w_y' = 0
    /\ p_pc' = "cam_test"
    /\ UNCHANGED <<runVars, pollVars, frameVars, obj, sched, ringVars, p_h, p_n, p_t, p_v, p_tcur, consVars, histVars,
                   lifeVars, clockVars, fbuf, w_t0, w_shift, frames>>

\* the images a frame source delivers, each a frame of equal rows that no
\* synthetic gradient (shift < _width) equals
CvFrames == {FrameWidth + k : k \in 0..(MaxFrames - 1)}

\* _buffer after an iteration whose cap.read returned false
FailedReadBlanks(b) == [y \in DOMAIN b |-> Blank]

FailedRead(b) == b

\* NativeWebcam::run_loop is entered in a build with USE_OPENCV and
\* cap.isOpened() holds (otherwise the synthetic path, CamEntry, runs)
CvOpen ==
    /\ obj = "NativeWebcam"
    /\ p_pc = "cam_entry"
    /\ p_pc' = "cv_test"
    /\ fails' = 0
    /\ w_frame' = 0
    /\ UNCHANGED <<runVars, pollVars, lastGood, r_pc, r_y, view, obj, sched, ringVars,
                   p_h, p_n, p_t, p_v, p_tcur, consVars, histVars, lifeVars, clockVars, camVars>>

\* while (_running.load()); after the loop cap.release(); return
CvTest ==
    /\ obj = "NativeWebcam"
    /\ p_pc = "cv_test"
    /\ tests' = Min(tests + 1, 2)
    /\ IF LoopContinues THEN p_pc' = "cv_read" /\ UNCHANGED live ELSE ThreadExit
    /\ UNCHANGED <<runVars, pollVars, frameVars, obj, sched, ringVars,
                   p_h, p_n, p_t, p_v, p_tcur, consVars, histVars,
                   connected, running, port, thread, aborted, caller, err, lastCall, stopped,
                   clockVars, camVars>>

\* cap.read(frame) returns true with a frame that is not empty (resized to
\* _width x _height when its size differs)
CvReadFrame ==
    /\ obj = "NativeWebcam"
    /\ p_pc = "cv_read"
    /\ \E f \in CvFrames : w_frame' = f
    /\ fails' = 0
    /\ late' = LateCount
    /\ p_pc' = "cv_lock"
    /\ UNCHANGED <<starts, r_t0, runPushes, pollVars, lastGood, r_pc, r_y, view, obj, sched,
                   ringVars, p_h, p_n, p_t, p_v, p_tcur, consVars, histVars, lifeVars,
                   clockVars, camVars>>

\* cap.read(frame) returns true with an empty frame: continue
CvReadEmpty ==
    /\ obj = "NativeWebcam"
    /\ p_pc = "cv_read"
    /\ late' = LateCount
    /\ p_pc' = "cv_test"
    /\ UNCHANGED <<starts, r_t0, runPushes, pollVars, frameVars, obj, sched,
                   ringVars, p_h, p_n, p_t, p_v, p_tcur, consVars, histVars, lifeVars,
                   clockVars, camVars>>

\* cap.read(frame) returns false: the else branch is taken
CvReadFail ==
    /\ obj = "NativeWebcam"
    /\ p_pc = "cv_read"
    /\ fbuf' = FailedRead(fbuf)
    /\ fails' = Min(fails + 1, MaxFails)
    /\ late' = LateCount
    /\ p_pc' = "cv_fail"
    /\ UNCHANGED <<starts, r_t0, runPushes, pollVars, w_frame, lastGood, r_pc, r_y, view,
                   obj, sched, ringVars, p_h, p_n, p_t, p_v, p_tcur, consVars, histVars,
                   lifeVars, clockVars, mtx, w_t0, w_shift, w_y, frames>>

\* sleep_for(5ms) after a failed read, then the loop test again
CvFailSleep ==
    /\ obj = "NativeWebcam"
    /\ p_pc = "cv_fail"
    /\ p_pc' = "cv_test"
    /\ UNCHANGED <<runVars, pollVars, frameVars, obj, sched, ringVars,
                   p_h, p_n, p_t, p_v, p_tcur, consVars, histVars, lifeVars, clockVars, camVars>>

\* std::lock_guard<std::mutex> g(_mtx), taken when the frame is there
CvLock ==
    /\ obj = "NativeWebcam"
    /\ p_pc = "cv_lock"
    /\ mtx = "free"
    /\ mtx' = "loop"
    /\ w_y' = 0
    /\ frames' = Min(frames + 1, MaxFrames)
    /\ p_pc' = "cv_copy"
    /\ UNCHANGED <<runVars, pollVars, frameVars, obj, sched, ringVars,
                   p_h, p_n, p_t, p_v, p_tcur, consVars, histVars, lifeVars, clockVars,
                   fbuf, w_t0, w_shift>>

\* std::memcpy of the frame into _buffer, here row by row
CvCopyRow ==
    /\ obj = "NativeWebcam"
    /\ p_pc = "cv_copy"
    /\ w_y < FrameHeight
    /\ fbuf' = [fbuf EXCEPT ![w_y] = w_frame]
    /\ w_y' = w_y + 1
    /\ UNCHANGED <<runVars, pollVars, frameVars, obj, sched, ringVars, prodVars, consVars,
                   histVars, lifeVars, clockVars, mtx, w_t0, w_shift, frames>>

\* the copy is complete: the block of g ends and _mtx is released
CvUnlock ==
    /\ obj = "NativeWebcam"
    /\ p_pc = "cv_copy"
    /\ ~(w_y < FrameHeight)
    /\ mtx' = "free"
    /\ w_y' = 0
    /\ w_frame' = 0
    /\ lastGood' = fbuf
    /\ p_pc' = "cv_test"
    /\ UNCHANGED <<runVars, pollVars, fails, r_pc, r_y, view, obj, sched, ringVars,
                   p_h, p_n, p_t, p_v, p_tcur, consVars, histVars, lifeVars, clockVars,
                   fbuf, w_t0, w_shift, frames>>

CvLoopStep ==
    \/ CvOpen
    \/ CvTest
    \/ CvReadFrame
    \/ CvReadEmpty
    \/ CvReadFail
    \/ CvFailSleep
    \/ CvLock
    \/ CvCopyRow
    \/ CvUnlock

\* a reader that does not wait for _mtx
ReaderIgnoresLock == TRUE

\* std::lock_guard<std::mutex> g(_mtx) in get_latest_frame can be taken
ReaderMayLock == mtx = "free"

\* get_latest_frame() is called: g is taken. The bound methods release no
\* interpreter lock, so no lifecycle call is in progress.
ReaderLock ==
    /\ obj = "NativeWebcam"
    /\ caller = "idle"
    /\ r_pc = "idle"
    /\ ReaderMayLock
    /\ mtx' = IF mtx = "free" THEN "reader" ELSE mtx
    /\ r_y' = 0
    /\ r_pc' = "copy"
    /\ UNCHANGED <<runVars, pollVars, w_frame, fails, lastGood, view, obj, sched, ringVars,
                   prodVars, consVars, histVars, lifeVars, clockVars,
                   fbuf, w_t0, w_shift, w_y, frames>>

\* py::array(py::buffer_info(_buffer.data(), ...)): an array built from a
\* pointer without a base object owns a copy of the data; the copy is made
\* while g is held, here row by row
ReaderCopyRow ==
    /\ r_pc = "copy"
    /\ r_y < FrameHeight
    /\ view' = [view EXCEPT ![r_y] = fbuf[r_y]]
    /\ r_y' = r_y + 1
    /\ UNCHANGED <<runVars, pollVars, w_frame, fails, lastGood, r_pc, obj, sched, ringVars,
                   prodVars, consVars, histVars, lifeVars, clockVars, camVars>>

\* return: g releases _mtx
ReaderReturn ==
    /\ r_pc = "copy"
    /\ ~(r_y < FrameHeight)
    /\ mtx' = IF mtx = "reader" THEN "free" ELSE mtx
    /\ r_pc' = "idle"
    /\ UNCHANGED <<runVars, pollVars, w_frame, fails, lastGood, r_y, view, obj, sched, ringVars,
                   prodVars, consVars, histVars, lifeVars, clockVars,
                   fbuf, w_t0, w_shift, w_y, frames>>

GetLatestFrame ==
    \/ ReaderLock
    \/ ReaderCopyRow
    \/ ReaderReturn

\* ---------------------------------------------------- lifecycle calls

Ports == {"COM3", "FAIL"}

\* connect(port): _port = port; _connected = (port != "FAIL"); throw if not
Connect(p) ==
    /\ obj = "NativeShimmer"
    /\ caller = "idle"
    /\ port' = p
    /\ connected' = (p # "FAIL")
    /\ err' = IF p # "FAIL" THEN "none" ELSE "runtime_error"
    /\ lastCall' = "connect"
    /\ UNCHANGED <<runVars, pollVars, frameVars, obj, sched, ringVars, prodVars, consVars, histVars,
                   running, thread, live, aborted, caller, stopped, tests,
                   clockVars, camVars>>

\* a start that does not test the running flag
NeverAlreadyRunning == FALSE

\* if (_running.load()) return;
ShimmerAlreadyRunning == running

\* start_streaming()
StartStreaming ==
    /\ obj = "NativeShimmer"
    /\ caller = "idle"
    /\ (connected /\ ~ShimmerAlreadyRunning) => starts < StartBound
    /\ lastCall' = "start"
    /\ IF ~connected
       THEN /\ err' = "runtime_error"
            /\ UNCHANGED <<running, thread, live, aborted, caller, stopped, tests, p_pc,
                           starts, late>>
       ELSE /\ err' = "none"
            /\ IF ShimmerAlreadyRunning
               THEN UNCHANGED <<running, thread, live, aborted, caller, stopped, tests, p_pc,
                                starts, late>>
               ELSE running' = TRUE /\ SpawnThread("entry")
    /\ UNCHANGED <<r_t0, runPushes, pollVars, frameVars, obj, sched, ringVars, p_h, p_n, p_t, p_v, p_tcur, consVars, histVars,
                   connected, port, clockVars, camVars>>

\* stop(): _running.store(false); if (_thread.joinable()) the caller goes
\* on to join, otherwise the call returns
StopCall ==
    /\ caller = "idle"
    /\ lastCall' = "stop"
    /\ running' = FALSE
    /\ IF thread = "joinable"
       THEN caller' = "join" /\ UNCHANGED <<stopped, err>>
       ELSE caller' = "idle" /\ stopped' = TRUE /\ err' = "none"
    /\ UNCHANGED <<runVars, pollVars, frameVars, obj, sched, ringVars, prodVars, consVars, histVars,
                   connected, port, thread, live, aborted, tests, clockVars, camVars>>

\* _thread.join() returns and the stop call returns
JoinReturn ==
    /\ caller = "join"
    /\ Joined
    /\ thread' = "none"
    /\ caller' = "idle"
    /\ stopped' = TRUE
    /\ err' = "none"
    /\ UNCHANGED <<runVars, pollVars, frameVars, obj, sched, ringVars, prodVars, consVars, histVars,
                   connected, running, port, live, aborted, lastCall, tests, clockVars, camVars>>

\* stop_streaming()
StopStreaming == obj = "NativeShimmer" /\ StopCall

StopStreamingJoin == obj = "NativeShimmer" /\ JoinReturn

\* if (_running.load()) return;
CamAlreadyRunning == running

\* start_capture()
StartCapture ==
    /\ obj = "NativeWebcam"
    /\ caller = "idle"
    /\ ~CamAlreadyRunning => starts < StartBound
    /\ lastCall' = "start"
    /\ err' = "none"
    /\ IF CamAlreadyRunning
       THEN UNCHANGED <<running, thread, live, aborted, caller, stopped, tests, p_pc,
                        starts, late>>
       ELSE running' = TRUE /\ SpawnThread("cam_entry")
    /\ UNCHANGED <<r_t0, runPushes, pollVars, frameVars, obj, sched, ringVars, p_h, p_n, p_t, p_v, p_tcur, consVars, histVars,
                   connected, port, clockVars, camVars>>

\* stop_capture()
StopCapture == obj = "NativeWebcam" /\ StopCall

StopCaptureJoin == obj = "NativeWebcam" /\ JoinReturn

ShimmerLoopStep ==
    \/ LoopEntry
    \/ LoopTest
    \/ LoopSleep
    \/ LoopPush
    \/ LoopAdvance
    \/ PushStep

CamLoopStep ==
    \/ CamEntry
    \/ CamTest
    \/ CamShift
    \/ CamLock
    \/ CamWriteRow
    \/ CamSleep
    \/ CamUnlock
    \/ CvLoopStep

CallerStep ==
    \/ \E p \in Ports : Connect(p)
    \/ StartStreaming
    \/ StopStreaming
    \/ StopStreamingJoin
    \/ StartCapture
    \/ StopCapture
    \/ StopCaptureJoin

\* a stream object after its constructor; the webcam has no ring, its ring
\* variables stay at their initial values
StreamInit ==
    /\ RingInit(IF obj = "NativeShimmer" THEN QueueCapacity ELSE 1)
    /\ p_pc = "off" /\ p_h = 0 /\ p_n = 0 /\ p_t = 0 /\ p_v = 0 /\ p_tcur = 0
    /\ c_pc = "idle" /\ c_tcur = 0 /\ c_h = 0 /\ c_i = 0 /\ c_x = 0 /\ c_out = <<>>
    /\ HistInit
    /\ LifeInit
    /\ CamInit

\* One lifecycle caller driving a NativeShimmer or a NativeWebcam, whose
\* loop thread runs concurrently with the caller
InitLife ==
    /\ obj \in {"NativeShimmer", "NativeWebcam"}
    /\ sched = "concurrent"
    /\ StreamInit

NextLife == CallerStep \/ ShimmerLoopStep \/ CamLoopStep \/ Tick

SpecLife == InitLife /\ [][NextLife]_vars

\* The stream object is destroyed (the Python object is collected). Neither
\* class declares a destructor: the members are destroyed, and destroying
\* a joinable std::thread calls std::terminate.
Destroy ==
    /\ caller = "idle"
    /\ lastCall' = "destroy"
    /\ IF thread = "joinable"
       THEN aborted' = TRUE /\ caller' = "dead" /\ p_pc' = "dead"
       ELSE caller' = "destroyed" /\ UNCHANGED <<aborted, p_pc>>
    /\ UNCHANGED <<runVars, pollVars, frameVars, obj, sched, ringVars,
                   p_h, p_n, p_t, p_v, p_tcur, consVars, histVars,
                   connected, running, port, thread, live, err, stopped, tests,
                   clockVars, camVars>>

\* A stream driven by a lifecycle caller that may destroy it at any time
NextTeardown == CallerStep \/ ShimmerLoopStep \/ CamLoopStep \/ Tick \/ Destroy

SpecTeardown == InitLife /\ [][NextTeardown]_vars

\* The lifecycle under fair scheduling: a loop thread that can take a step
\* eventually takes one, and a join whose thread has ended returns
SpecLifeFair ==
    /\ InitLife
    /\ [][NextLife]_vars
    /\ WF_vars(ShimmerLoopStep)
    /\ WF_vars(CamLoopStep)
    /\ WF_vars(StopStreamingJoin)
    /\ WF_vars(StopCaptureJoin)

\* get_latest_samples(): return _queue.pop_all(). The bound methods release
\* no interpreter lock (PYBIND11_MODULE), so a call starts only when no
\* other call of the Python side is in progress.
GetLatestSamples ==
    \/ obj = "NativeShimmer" /\ caller = "idle" /\ PopLoadTail
    \/ PopLoadHead
    \/ PopReadT
    \/ PopReadV
    \/ PopStoreTail

ShimmerCallerStep ==
    \/ c_pc = "idle" /\ \E p \in Ports : Connect(p)
    \/ c_pc = "idle" /\ StartStreaming
    \/ c_pc = "idle" /\ StopStreaming
    \/ StopStreamingJoin

\* A NativeShimmer whose lifecycle calls and get_latest_samples calls come
\* from the Python side, one call after another, while its loop thread runs
InitPoll ==
    /\ obj = "NativeShimmer"
    /\ sched = "polled"
    /\ StreamInit

NextPoll == ShimmerCallerStep \/ ShimmerLoopStep \/ Tick \/ GetLatestSamples

SpecPoll == InitPoll /\ [][NextPoll]_vars

\* the loop thread is inside the while loop of run_loop
InRun == p_pc \notin {"off", "entry", "dead"}

\* the clock advances while no iteration of a running loop is delayed by
\* more than one period past its deadline
TickWithinJitter ==
    /\ InRun => now - t_next < Period
    /\ Tick

\* A NativeShimmer whose sampling loop is scheduled with a jitter of at most
\* one period
InitRate ==
    /\ obj = "NativeShimmer"
    /\ sched = "concurrent"
    /\ StreamInit

NextRate == ShimmerCallerStep \/ ShimmerLoopStep \/ TickWithinJitter

SpecRate == InitRate /\ [][NextRate]_vars

CamCallerStep ==
    \/ r_pc = "idle" /\ StartCapture
    \/ r_pc = "idle" /\ StopCapture
    \/ StopCaptureJoin

\* A NativeWebcam whose lifecycle calls and get_latest_frame calls come from
\* the Python side, one call after another, while its loop thread runs
InitCam ==
    /\ obj = "NativeWebcam"
    /\ sched = "concurrent"
    /\ StreamInit

NextCam == CamCallerStep \/ CamLoopStep \/ Tick \/ GetLatestFrame

SpecCam == InitCam /\ [][NextCam]_vars

\* ------------------------------------------------------------- claims

\* C1: the concatenation of everything pop_all returned is in push order:
\* the push indices of the returned samples are strictly increasing.
C1_OrderPreserved ==
    \A i, j \in DOMAIN popped : i < j => popped[i][1] < popped[j][1]

\* C2: the unread span never exceeds the capacity: head - tail <= cap
\* whenever no push is in progress, the count pop_all computes is at most
\* cap, and no pop_all returns more than cap samples.
C2_BoundedSpan ==
    /\ (p_pc = "idle" => head - tail <= cap)
    /\ (c_pc \in {"loop", "read_v"} => Count <= cap)
    /\ Len(lastRet) <= cap

\* C3: after more than cap complete push calls with no pop_all in between,
\* one pop_all returns exactly the last cap pushed samples in push order;
\* with capacity 8 and pushes (0,0)..(11,11) it returns (4,4)..(11,11).
C3_DropOldest ==
    /\ (pops > 0 /\ lastSince > cap) =>
          lastRet = [i \in 1..cap |-> Sample(lastH - cap + i - 1)]
    /\ (pops > 0 /\ sincePop = 0 /\ c_pc = "idle" /\ p_pc = "idle") => lastH = pushed
    /\ (cap = 8 /\ pops = 1 /\ lastSince = 12) =>
          lastRet = <<Sample(4), Sample(5), Sample(6), Sample(7),
                      Sample(8), Sample(9), Sample(10), Sample(11)>>

C3_Witness ==
    /\ cap = 8 /\ pops = 1 /\ lastSince = 12 /\ Len(lastRet) = 8
    /\ lastRet[1] = <<4, 4>> /\ lastRet[8] = <<11, 11>>

\* C4: when a pop_all call returns at least once per cap pushes, every
\* pushed sample is returned, exactly once: what pop_all returned so far
\* is samples 0, 1, 2, ... with none missing and none repeated.
C4_NoLossWhenTimely ==
    timely => \A i \in DOMAIN popped : popped[i] = Sample(i - 1)

\* C5: each pop_all returns a contiguous run of the push sequence ending
\* at the last sample published before its head load, and no sample is
\* returned twice, within a call or across calls.
C5_ContiguousNoDuplicate ==
    /\ \A i \in DOMAIN lastRet : lastRet[i] = Sample(lastH - Len(lastRet) + i - 1)
    /\ \A i, j \in DOMAIN popped : i < j => popped[i] # popped[j]

\* the slots the pop_all in progress will still read
PendingSlots == {Slot(c_tcur + k) : k \in c_i..(Count - 1)}

\* C6: every pair pop_all returns is the pair of one single push call, and
\* the producer never writes a slot while a pop_all that will return that
\* slot's position is reading it.
C6_NoTornReads ==
    /\ \A i \in DOMAIN popped : popped[i][1] = popped[i][2]
    /\ ~(p_pc \in {"write_t", "write_v"} /\ c_pc \in {"loop", "read_v"}
         /\ Slot(p_h) \in PendingSlots)

\* C7: stop_streaming() on a stream that is not running, and
\* start_streaming() on a stream that is already running, complete without
\* error and leave the connected flag, the running flag, the thread handle
\* and the number of live loop threads unchanged.
C7_LifecycleIdempotent ==
    [][((StartStreaming /\ running) \/ (StopStreaming /\ ~running)) =>
          /\ err' = "none"
          /\ connected' = connected
          /\ running' = running
          /\ thread' = thread
          /\ live' = live]_vars

\* C8: start_streaming() on a stream that is not connected fails with an
\* error, spawns no loop thread and leaves running = false; on a connected
\* stream that is not running it spawns exactly one loop thread and the
\* stream is running.
C8_StartNeedsConnection ==
    [][/\ (StartStreaming /\ ~connected) =>
              (err' = "runtime_error" /\ live' = live /\ ~running')
       /\ (StartStreaming /\ connected /\ ~running) =>
              (err' = "none" /\ live' = live + 1 /\ thread' = "joinable" /\ running')]_vars

\* C9: from the return of a stop call until the next thread is spawned the
\* loop thread has terminated, running is false, and nothing is pushed
\* into the ring or written into the frame buffer.
C9_StopJoinsLoop ==
    /\ [](stopped => (p_pc = "off" /\ live = 0 /\ ~running))
    /\ [][(stopped /\ stopped') => UNCHANGED <<head, tail, buf, pushed, fbuf, frames>>]_vars

C9_Witness ==
    /\ obj = "NativeShimmer" /\ stopped /\ caller = "idle"
    /\ pushed > 0 /\ head = pushed /\ p_pc = "off"

\* C10: at most one loop thread of a stream is alive at any time, the
\* process is never terminated by an assignment to a joinable handle, and
\* when a stop call has returned, also one issued right after the start,
\* no loop thread is alive and the handle is not joinable.
C10_AtMostOneLoopThread ==
    /\ ~aborted
    /\ live <= 1
    /\ (thread = "none" => live = 0)
    /\ (stopped => (live = 0 /\ thread = "none"))

\* stop returned although the thread it joined found the flag already
\* cleared at its first loop test
C10_Witness ==
    /\ stopped /\ caller = "idle" /\ connected
    /\ tests = 1 /\ pushed = 0 /\ live = 0 /\ thread = "none"

\* C11: connect("FAIL") fails with an error and leaves the recorded port as
\* it was; connect with any other target records the target and leaves the
\* stream connected.
C11_ConnectRecordsValidTargetOnly ==
    [][\A p \in Ports :
          Connect(p) =>
              IF p = "FAIL"
              THEN err' = "runtime_error" /\ port' = port
              ELSE err' = "none" /\ port' = p /\ connected']_vars

\* C12 as stated: a get_latest_samples call returns an empty sequence
\* whenever no push call has returned since the previous pop_all returned.
C12_EmptyWhenNoPushCompleted ==
    [][(pops' = pops + 1 /\ pops > 0 /\ ~doneSince) => c_out = <<>>]_vars

\* C12, amended: get_latest_samples can be called in every lifecycle state
\* and each of its steps can be taken whatever the loop thread and the
\* lifecycle are doing (it never waits), with a count that is not
\* negative (reserve does not fail); and a call returns an empty
\* sequence whenever push has stored neither head nor tail between the
\* previous pop_all's load of head (or the construction) and this call's.
C12_PollNeverWaitsEmptyWhenQuiet ==
    /\ (c_pc = "idle" /\ caller = "idle" /\ pops < PopBound) => ENABLED PopLoadTail
    /\ c_pc # "idle" => ENABLED GetLatestSamples
    /\ c_pc = "loop" => Count >= 0
    /\ (c_pc = "loop" /\ c_quiet) => (Count = 0 /\ c_out = <<>>)

\* a second call on a stopped stream whose samples the first call returned
C12_Witness ==
    /\ stopped /\ pops = 1 /\ popped # <<>>
    /\ c_pc = "loop" /\ c_quiet /\ Count = 0

\* C13: in the frame loop with a real frame source, an iteration whose
\* cap.read fails leaves the shared buffer unchanged and the loop thread
\* alive, so that after any number of consecutive failures the buffer, and
\* the frame a get_latest_frame call returns, is the last frame copied.
C13_FailedReadKeepsFrame ==
    /\ [](fails > 0 => (mtx # "loop" /\ fbuf = lastGood))
    /\ [](p_pc = "cv_fail" => live = 1)
    /\ [][(p_pc = "cv_read" /\ p_pc' = "cv_fail") => (fbuf' = fbuf /\ live' = live)]_vars
    /\ [][p_pc = "cv_fail" => p_pc' \in {"cv_fail", "cv_test"}]_vars
    /\ [][(r_pc = "copy" /\ r_pc' = "idle" /\ fails > 0) => view = lastGood]_vars

\* get_latest_frame returns an acquired frame after MaxFails failed reads
C13_Witness ==
    /\ running /\ fails = MaxFails /\ p_pc = "cv_fail"
    /\ r_pc = "copy" /\ r_y = FrameHeight
    /\ view = lastGood /\ lastGood[0] \in CvFrames

\* C16: whenever the frame loop is acquiring or generating the next frame
\* or sleeping between frames, the loop thread does not hold the frame
\* mutex: it holds it only while bytes are copied into the shared buffer.
C16_MutexHeldOnlyWhileCopying ==
    p_pc \in {"cam_shift", "cam_sleep", "cv_read", "cv_fail"} => mtx # "loop"

RunSamples ==
    runPushes + IF p_pc \in {"write_t", "write_v", "store_head", "load_tail", "check", "advance"}
                THEN 1 ELSE 0

\* C14: within one run started at t0 the deadline after k pushes is
\* t0 + k * Period, a push happens only when now >= deadline, and when no
\* iteration is delayed by more than one period the number of samples
\* pushed by elapsed time T differs from T / Period by at most two.
C14_RateConvergence ==
    /\ [](InRun => t_next = r_t0 + runPushes * Period)
    /\ [][(p_pc = "clock" /\ p_pc' = "write_t") => now >= t_next]_vars
    /\ [](InRun => /\ now - t_next <= Period
                   /\ t_next - now <= Period
                   /\ (now - r_t0) - RunSamples * Period <= Period
                   /\ RunSamples * Period - (now - r_t0) <= 2 * Period)

\* a run that pushed on time and then pushes a whole period late
C14_Witness ==
    /\ InRun /\ runPushes = MaxTime - 1 /\ now = MaxTime /\ r_t0 = 0
    /\ p_pc = "advance" /\ t_next = now - Period

\* C15: under any interleaving of one producer and one consumer no store
\* by push or by pop_all makes head or tail smaller than it was.
C15_CountersMonotonic ==
    [][head' >= head /\ tail' >= tail]_vars

\* C20: over every sequence of connect, start_streaming and stop_streaming
\* calls running implies connected, and a connect that fails on a
\* connected stream leaves connected, the port and the running loop as
\* they were.
C20_RunningImpliesConnected ==
    [][/\ (obj = "NativeShimmer" /\ running') => connected'
       /\ (Connect("FAIL") /\ connected) =>
              (connected' /\ port' = port /\ running' = running /\ live' = live)]_vars

\* C18: once a stop call has cleared the running flag the loop thread
\* begins at most one more sleep or push/frame iteration before it tests
\* the flag and exits, so under fair scheduling of the loop thread every
\* stop call returns; and the loop thread exits only when the flag is
\* clear.
C18_CancellationTerminates ==
    /\ [](late <= 1)
    /\ [][live' < live => ~running]_vars
    /\ (caller = "join") ~> (caller = "idle" /\ stopped)

\* a stop call has returned after the loop thread finished the iteration
\* it had begun when the flag was cleared
C18_Witness ==
    /\ stopped /\ caller = "idle" /\ late = 1 /\ live = 0 /\ tests = 2

\* C19: destroying a stream object in any lifecycle state does not abort
\* the process and leaves no live loop thread and no set running flag.
C19_TeardownClean ==
    caller \in {"destroyed", "dead"} => (~aborted /\ live = 0 /\ ~running)

====
